---- MODULE Spec2Model ----
(***************************************************************************)
(* Funding Finder API: the POST /match handler of main.py, its category    *)
(* extractor and its bag-of-words scorer.                                  *)
(*                                                                         *)
(* A Python str is a sequence of one-character strings, so that lower(),   *)
(* split(), join() and the substring test "in" are computed as the code    *)
(* computes them.  A score is kept in hundredths (75.0 is 7500), which is  *)
(* the precision round(x, 2) leaves.  A value that may be None, and a dict *)
(* key that may be absent, is a record [kind, val].                        *)
(***************************************************************************)
EXTENDS Integers, Sequences, FiniteSets, TLC

VARIABLES db, collection, pc, req, sample, cats, items, response, error,
          text, opportunity, ret

vars == <<db, collection, pc, req, sample, cats, items, response, error,
          text, opportunity, ret>>

handlerVars == <<db, collection, pc, req, sample, cats, items, response, error>>

pureVars == <<text, opportunity, ret>>

\* ------------------------------------------------------------------ bounds
\* largest number of documents in the fundingopportunity collection
MaxDocs == 11
\* longest text handed to extract_categories on its own
MaxLen == 4
\* number of distinct vocabulary words a query handed to simple_score draws on
MaxWords == 6

\* ------------------------------------------------- Python values and str
None == [kind |-> "null", val |-> <<>>]
Absent == [kind |-> "absent", val |-> <<>>]
Val(v) == [kind |-> "val", val |-> v]

\* truth value of a str, a list or None
Truthy(v) == v.kind = "val" /\ v.val # <<>>

\* dict.get(key): None for an absent key
Get(f) == IF f.kind = "absent" THEN None ELSE f

\* dict.get(key, default): the default only for an absent key
GetDefault(f, d) == IF f.kind = "absent" THEN Val(d) ELSE f

\* x or d
Or(v, d) == IF Truthy(v) THEN v ELSE Val(d)

UpperChars == <<"A", "B", "C", "D", "E", "F", "G", "H", "I", "J", "K", "L", "M",
                "N", "O", "P", "Q", "R", "S", "T", "U", "V", "W", "X", "Y", "Z">>
LowerChars == <<"a", "b", "c", "d", "e", "f", "g", "h", "i", "j", "k", "l", "m",
                "n", "o", "p", "q", "r", "s", "t", "u", "v", "w", "x", "y", "z">>

LowerOf == [c \in {UpperChars[i] : i \in 1..26} |->
               LowerChars[CHOOSE i \in 1..26 : UpperChars[i] = c]]

LowerChar(c) == IF c \in DOMAIN LowerOf THEN LowerOf[c] ELSE c

\* str.lower()
lower(s) == [i \in 1..Len(s) |-> LowerChar(s[i])]

IsSpace(c) == c \in {" ", "\t", "\n", "\r", "\f"}

\* str.split() with no argument cuts s into its maximal runs of
\* non-whitespace; a run starts at i and ends at WordEnd(s, i)
WordStarts(s) == {i \in 1..Len(s) : ~IsSpace(s[i]) /\ (i = 1 \/ IsSpace(s[i - 1]))}

WordEnd(s, i) ==
    CHOOSE j \in i..Len(s) :
        /\ j = Len(s) \/ IsSpace(s[j + 1])
        /\ \A k \in i..j : ~IsSpace(s[k])

\* set(w for w in s.split())
WordSet(s) == {SubSeq(s, i, WordEnd(s, i)) : i \in WordStarts(s)}

\* sep.join(list)
RECURSIVE join(_, _)
join(sep, l) ==
    IF l = <<>> THEN <<>>
    ELSE IF Len(l) = 1 THEN l[1]
    ELSE l[1] \o sep \o join(sep, Tail(l))

\* sub in s, for two str
Contains(sub, s) ==
    /\ Len(sub) <= Len(s)
    /\ \E i \in 0..(Len(s) - Len(sub)) : SubSeq(s, i + 1, i + Len(sub)) = sub

\* x in list
InList(x, l) == \E i \in 1..Len(l) : l[i] = x

Min(a, b) == IF a <= b THEN a ELSE b
Max(a, b) == IF a >= b THEN a ELSE b

\* ------------------------------------------------------ category extractor
KEYWORD_MAP == <<
    [k |-> <<"a", "i">>, kws |-> <<<<"a", "i">>, <<"a", "r", "t", "i", "f", "i", "c", "i", "a", "l", " ", "i", "n", "t", "e", "l", "l", "i", "g", "e", "n", "c", "e">>, <<"m", "a", "c", "h", "i", "n", "e", " ", "l", "e", "a", "r", "n", "i", "n", "g">>, <<"m", "l">>, <<"d", "e", "e", "p", " ", "l", "e", "a", "r", "n", "i", "n", "g">>>>],
    [k |-> <<"h", "e", "a", "l", "t", "h">>, kws |-> <<<<"h", "e", "a", "l", "t", "h">>, <<"b", "i", "o", "t", "e", "c", "h">>, <<"m", "e", "d">>, <<"c", "l", "i", "n", "i", "c", "a", "l">>, <<"h", "e", "a", "l", "t", "h", "c", "a", "r", "e">>>>],
    [k |-> <<"c", "l", "i", "m", "a", "t", "e">>, kws |-> <<<<"c", "l", "i", "m", "a", "t", "e">>, <<"e", "n", "v", "i", "r", "o", "n", "m", "e", "n", "t">>, <<"e", "n", "e", "r", "g", "y">>, <<"s", "u", "s", "t", "a", "i", "n", "a", "b", "i", "l", "i", "t", "y">>, <<"c", "a", "r", "b", "o", "n">>>>],
    [k |-> <<"e", "d", "u", "c", "a", "t", "i", "o", "n">>, kws |-> <<<<"e", "d", "u", "c", "a", "t", "i", "o", "n">>, <<"e", "d", "t", "e", "c", "h">>, <<"s", "c", "h", "o", "o", "l">>, <<"l", "e", "a", "r", "n", "i", "n", "g">>, <<"s", "t", "u", "d", "e", "n", "t", "s">>>>],
    [k |-> <<"a", "g", "r", "i", "c", "u", "l", "t", "u", "r", "e">>, kws |-> <<<<"a", "g", "r", "i", "c", "u", "l", "t", "u", "r", "e">>, <<"a", "g", "r", "i", "t", "e", "c", "h">>, <<"f", "a", "r", "m", "i", "n", "g">>, <<"c", "r", "o", "p">>, <<"s", "o", "i", "l">>>>],
    [k |-> <<"t", "r", "a", "n", "s", "p", "o", "r", "t">>, kws |-> <<<<"t", "r", "a", "n", "s", "p", "o", "r", "t">>, <<"m", "o", "b", "i", "l", "i", "t", "y">>, <<"e", "v">>, <<"a", "u", "t", "o", "n", "o", "m", "o", "u", "s">>, <<"l", "o", "g", "i", "s", "t", "i", "c", "s">>>>],
    [k |-> <<"c", "y", "b", "e", "r">>, kws |-> <<<<"c", "y", "b", "e", "r">>, <<"s", "e", "c", "u", "r", "i", "t", "y">>, <<"i", "n", "f", "o", "s", "e", "c">>, <<"p", "r", "i", "v", "a", "c", "y">>>>] >>

\* the loop of extract_categories from entry n on: cats.append(k) for each
\* entry one of whose keywords occurs in text_l
RECURSIVE CatsFrom(_, _)
CatsFrom(text_l, n) ==
    IF n > Len(KEYWORD_MAP) THEN <<>>
    ELSE LET e == KEYWORD_MAP[n]
         IN (IF \E j \in 1..Len(e.kws) : Contains(e.kws[j], text_l)
             THEN <<e.k>> ELSE <<>>) \o CatsFrom(text_l, n + 1)

\* extract_categories without its "or [\"general\"]"
extract_categories_nofallback(t) == CatsFrom(lower(t), 1)

\* return cats or ["general"]
extract_categories(t) ==
    LET found == CatsFrom(lower(t), 1)
    IN IF found = <<>> THEN << <<"g", "e", "n", "e", "r", "a", "l">> >> ELSE found

\* ------------------------------------------------------------------ scorer
Ok(v) == [err |-> FALSE, val |-> v]
Raise == [err |-> TRUE, val |-> 0]

\* round(num/den, 0) the way Python rounds: to nearest, a tie to even
RoundHalfEven(num, den) ==
    LET q == num \div den
        r == num % den
    IN IF 2 * r < den THEN q
       ELSE IF 2 * r > den THEN q + 1
       ELSE IF q % 2 = 0 THEN q ELSE q + 1

\* round(min(100.0, (overlap / n) * 100.0), 2), in hundredths
ScoreOf(overlap, n) ==
    IF overlap * 100 > 100 * n THEN 10000
    ELSE RoundHalfEven(overlap * 10000, n)

\* simple_score: TypeError when categories is present with the value None
\* (" ".join(None)); the join runs before the empty-query test
simple_score(query, opp) ==
    LET q_words == WordSet(lower(query))
        d == Or(Get(opp.description), <<>>)
        c == GetDefault(opp.categories, <<>>)
    IN IF c.kind = "null" THEN Raise
       ELSE LET desc == d.val \o <<" ">> \o join(<<" ">>, c.val)
                o_words == WordSet(lower(desc))
                overlap == Cardinality(q_words \cap o_words)
            IN IF q_words = {} THEN Ok(0)
               ELSE Ok(ScoreOf(overlap, Max(5, Cardinality(q_words))))

\* ------------------------------------------------------------- documents
Doc(title, agency, description, categories, eligibility, region, deadline, amount, url) ==
    [title |-> title, agency |-> agency, description |-> description,
     categories |-> categories, eligibility |-> eligibility, region |-> region,
     deadline |-> deadline, amount |-> amount, url |-> url]

\* the three static examples of match_opportunities
SAMPLE == <<
    Doc(Val(<<"A", "I", " ", "f", "o", "r", " ", "S", "o", "c", "i", "a", "l", " ", "G", "o", "o", "d", " ", "G", "r", "a", "n", "t", "s">>), Val(<<"O", "p", "e", "n", " ", "P", "h", "i", "l", "a", "n", "t", "h", "r", "o", "p", "y">>),
        Val(<<"F", "u", "n", "d", "i", "n", "g", " ", "f", "o", "r", " ", "a", "r", "t", "i", "f", "i", "c", "i", "a", "l", " ", "i", "n", "t", "e", "l", "l", "i", "g", "e", "n", "c", "e", " ", "p", "r", "o", "j", "e", "c", "t", "s", " ", "t", "h", "a", "t", " ", "b", "e", "n", "e", "f", "i", "t", " ", "s", "o", "c", "i", "e", "t", "y", ",", " ", "i", "n", "c", "l", "u", "d", "i", "n", "g", " ", "h", "e", "a", "l", "t", "h", " ", "a", "n", "d", " ", "e", "d", "u", "c", "a", "t", "i", "o", "n", ".">>),
        Val(<<<<"a", "i">>, <<"e", "d", "u", "c", "a", "t", "i", "o", "n">>>>), Val(<<<<"n", "o", "n", "p", "r", "o", "f", "i", "t">>, <<"r", "e", "s", "e", "a", "r", "c", "h", "e", "r">>, <<"s", "t", "a", "r", "t", "u", "p">>>>),
        Val(<<"G", "l", "o", "b", "a", "l">>), Val(<<"R", "o", "l", "l", "i", "n", "g">>), Val(<<"$", "5", "0", "k", "-", "$", "2", "5", "0", "k">>), Val(<<"h", "t", "t", "p", "s", ":", "/", "/", "e", "x", "a", "m", "p", "l", "e", ".", "o", "r", "g", "/", "a", "i", "-", "s", "o", "c", "i", "a", "l", "-", "g", "o", "o", "d">>)),
    Doc(Val(<<"C", "l", "i", "m", "a", "t", "e", " ", "I", "n", "n", "o", "v", "a", "t", "i", "o", "n", " ", "F", "u", "n", "d">>), Val(<<"G", "r", "e", "e", "n", " ", "F", "u", "t", "u", "r", "e", " ", "F", "o", "u", "n", "d", "a", "t", "i", "o", "n">>),
        Val(<<"S", "u", "p", "p", "o", "r", "t", "s", " ", "c", "l", "i", "m", "a", "t", "e", " ", "a", "n", "d", " ", "e", "n", "e", "r", "g", "y", " ", "i", "n", "n", "o", "v", "a", "t", "i", "o", "n", "s", " ", "r", "e", "d", "u", "c", "i", "n", "g", " ", "c", "a", "r", "b", "o", "n", " ", "e", "m", "i", "s", "s", "i", "o", "n", "s", ".">>),
        Val(<<<<"c", "l", "i", "m", "a", "t", "e">>, <<"e", "n", "e", "r", "g", "y">>>>), Val(<<<<"s", "t", "a", "r", "t", "u", "p">>, <<"s", "m", "a", "l", "l", " ", "b", "u", "s", "i", "n", "e", "s", "s">>>>),
        Val(<<"U", "S">>), Val(<<"2", "0", "2", "5", "-", "0", "3", "-", "0", "1">>), Val(<<"$", "1", "0", "0", "k", "-", "$", "1", "M">>), Val(<<"h", "t", "t", "p", "s", ":", "/", "/", "e", "x", "a", "m", "p", "l", "e", ".", "o", "r", "g", "/", "c", "l", "i", "m", "a", "t", "e", "-", "i", "n", "n", "o", "v", "a", "t", "i", "o", "n">>)),
    Doc(Val(<<"D", "i", "g", "i", "t", "a", "l", " ", "H", "e", "a", "l", "t", "h", " ", "S", "e", "e", "d", " ", "G", "r", "a", "n", "t", "s">>), Val(<<"H", "e", "a", "l", "t", "h", "T", "e", "c", "h", " ", "C", "o", "u", "n", "c", "i", "l">>),
        Val(<<"E", "a", "r", "l", "y", "-", "s", "t", "a", "g", "e", " ", "g", "r", "a", "n", "t", "s", " ", "f", "o", "r", " ", "d", "i", "g", "i", "t", "a", "l", " ", "h", "e", "a", "l", "t", "h", " ", "a", "p", "p", "s", " ", "a", "n", "d", " ", "c", "l", "i", "n", "i", "c", "a", "l", " ", "d", "e", "c", "i", "s", "i", "o", "n", " ", "s", "u", "p", "p", "o", "r", "t", ".">>),
        Val(<<<<"h", "e", "a", "l", "t", "h">>, <<"a", "i">>>>), Val(<<<<"r", "e", "s", "e", "a", "r", "c", "h", "e", "r">>, <<"s", "t", "a", "r", "t", "u", "p">>>>),
        Val(<<"E", "U">>), Val(<<"2", "0", "2", "5", "-", "0", "5", "-", "0", "1">>), Val(<<"U+20AC", "5", "0", "k", "-", "U+20AC", "2", "0", "0", "k">>), Val(<<"h", "t", "t", "p", "s", ":", "/", "/", "e", "x", "a", "m", "p", "l", "e", ".", "o", "r", "g", "/", "d", "i", "g", "i", "t", "a", "l", "-", "h", "e", "a", "l", "t", "h">>)) >>

\* documents a fundingopportunity collection may hold beside copies of the
\* examples: keys left out, keys stored with null, empty and upper-case values
BareDoc ==
    Doc(Val(<<"B", "a", "r", "e", " ", "R", "e", "c", "o", "r", "d">>), Val(<<"A", "g", "e", "n", "c", "y", " ", "B">>), Absent, Absent, Absent, Absent, Absent, Absent, Absent)
NullDoc ==
    Doc(Val(<<"N", "u", "l", "l", " ", "F", "i", "e", "l", "d", "s">>), Val(<<"A", "g", "e", "n", "c", "y", " ", "N">>), None, Val(<<<<"t", "r", "a", "n", "s", "p", "o", "r", "t">>>>), None, None, None, None, None)
BlankDoc ==
    Doc(Val(<<"B", "l", "a", "n", "k", " ", "F", "i", "e", "l", "d", "s">>), Val(<<"A", "g", "e", "n", "c", "y", " ", "E">>), Val(<<>>), Val(<<>>), Val(<<>>), Val(<<>>),
        Absent, Absent, Absent)
UpperDoc ==
    Doc(Val(<<"U", "p", "p", "e", "r", " ", "C", "a", "s", "e", " ", "G", "r", "a", "n", "t", "s">>), Val(<<"A", "g", "e", "n", "c", "y", " ", "U">>), Val(<<"C", "l", "i", "m", "a", "t", "e", " ", "E", "N", "E", "R", "G", "Y", " ", "c", "a", "r", "b", "o", "n", " ", "r", "e", "d", "u", "c", "t", "i", "o", "n", " ", "g", "r", "a", "n", "t", "s">>),
        Val(<<<<"A", "I">>>>), Val(<<<<"s", "t", "a", "r", "t", "u", "p">>>>), Val(<<"U", "S", "-", "E", "a", "s", "t">>), Absent, Absent, Absent)
NullCatsDoc ==
    Doc(Val(<<"N", "u", "l", "l", " ", "C", "a", "t", "e", "g", "o", "r", "i", "e", "s">>), Val(<<"A", "g", "e", "n", "c", "y", " ", "C">>), Val(<<"E", "n", "e", "r", "g", "y", " ", "s", "t", "o", "r", "a", "g", "e", " ", "p", "i", "l", "o", "t", "s">>), None,
        Val(<<>>), Val(<<"E", "U">>), Absent, Absent, Absent)

Pool == <<SAMPLE[1], SAMPLE[2], BareDoc, SAMPLE[3], NullDoc, UpperDoc, BlankDoc, NullCatsDoc>>

\* the collections: n documents taken from the pool at a fixed stride
Strides == 0..2

Progression(start, stride, n) ==
    [k \in 1..n |-> Pool[((start - 1 + (k - 1) * stride) % Len(Pool)) + 1]]

Collections ==
    {Progression(start, stride, n) :
        start \in 1..Len(Pool), stride \in Strides, n \in 0..MaxDocs}

\* the store handle: "none" is db is None, "up" a store that answers, "down"
\* a configured store whose operations raise
DbStates == {"none", "up", "down"}

\* -------------------------------------------------------------- requests
Descriptions == {
    <<"c", "l", "i", "m", "a", "t", "e", " ", "e", "n", "e", "r", "g", "y", " ", "c", "a", "r", "b", "o", "n", " ", "r", "e", "d", "u", "c", "t", "i", "o", "n">>,
    <<"a", "r", "t", "i", "f", "i", "c", "i", "a", "l", " ", "i", "n", "t", "e", "l", "l", "i", "g", "e", "n", "c", "e", " ", "f", "o", "r", " ", "h", "e", "a", "l", "t", "h", "c", "a", "r", "e">>,
    <<"S", "u", "p", "p", "o", "r", "t", "s", " ", "c", "l", "i", "m", "a", "t", "e", " ", "a", "n", "d", " ", "e", "n", "e", "r", "g", "y", " ", "i", "n", "n", "o", "v", "a", "t", "i", "o", "n", "s">>,
    <<"d", "i", "g", "i", "t", "a", "l", " ", "h", "e", "a", "l", "t", "h", " ", "a", "p", "p", "s", " ", "a", "n", "d", " ", "c", "l", "i", "n", "i", "c", "a", "l", " ", "t", "o", "o", "l", "s">>,
    <<>> }

Sectors == {None, Val(<<>>), Val(<<"E", "n", "e", "r", "g", "y">>)}

Regions == {None, Val(<<"u", "s">>), Val(<<"E", "U">>)}

\* MatchRequest
Requests ==
    {[description |-> d, sector |-> s, region |-> r] :
        d \in Descriptions, s \in Sectors, r \in Regions}

NoRequest == [description |-> <<>>, sector |-> None, region |-> None]

\* ---------------------------------------------------------------- handler
\* get_documents("fundingopportunity", {}): every document of the collection,
\* or an exception from a store that does not answer
get_documents(status, docs) == IF status = "down" THEN Raise ELSE Ok(docs)

\* the text the category tags are extracted from
\* (the description alone, were the sector hint left out of it)
DetectTextDescriptionOnly(r) == r.description

DetectText(r) == r.description \o <<" ">> \o Or(r.sector, <<>>).val

\* the region test that skips an opportunity
\* (the test without the two lower() calls)
RegionSkipCaseSensitive(r, opp) ==
    /\ Truthy(r.region)
    /\ Truthy(Get(opp.region))
    /\ ~Contains(r.region.val, Get(opp.region).val)

RegionSkip(r, opp) ==
    /\ Truthy(r.region)
    /\ Truthy(Get(opp.region))
    /\ ~Contains(lower(r.region.val), lower(Get(opp.region).val))

\* the two bonuses; TypeError when a sector hint meets a description stored
\* as None (str + None) or categories stored as None (" ".join(None))
\* (the category bonus counted once per matching tag instead of any())
BonusPerTag(r, cs, opp) ==
    LET own == Or(Get(opp.categories), <<>>).val
        n == Cardinality({i \in 1..Len(cs) : InList(cs[i], own)})
        c == GetDefault(opp.categories, <<>>)
        d == GetDefault(opp.description, <<>>)
    IN IF ~Truthy(r.sector) THEN Ok(15 * n)
       ELSE IF c.kind = "null" \/ d.kind = "null" THEN Raise
       ELSE IF Contains(lower(r.sector.val), lower(join(<<" ">>, c.val) \o <<" ">> \o d.val))
            THEN Ok(15 * n + 10) ELSE Ok(15 * n)

Bonus(r, cs, opp) ==
    LET own == Or(Get(opp.categories), <<>>).val
        b1 == IF \E i \in 1..Len(cs) : InList(cs[i], own) THEN 15 ELSE 0
        c == GetDefault(opp.categories, <<>>)
        d == GetDefault(opp.description, <<>>)
    IN IF ~Truthy(r.sector) THEN Ok(b1)
       ELSE IF c.kind = "null" \/ d.kind = "null" THEN Raise
       ELSE IF Contains(lower(r.sector.val), lower(join(<<" ">>, c.val) \o <<" ">> \o d.val))
            THEN Ok(b1 + 10) ELSE Ok(b1)

\* max(0, min(100, score + bonus)), score in hundredths
\* (the sum without max and min)
FinalUnclamped(score, bonus) == score + 100 * bonus

Final(score, bonus) == Max(0, Min(10000, score + 100 * bonus))

\* the dict appended for one opportunity
Item(opp, cs, score, bonus) ==
    [title |-> Get(opp.title), agency |-> Get(opp.agency), url |-> Get(opp.url),
     amount |-> Get(opp.amount), deadline |-> Get(opp.deadline), region |-> Get(opp.region),
     categories |-> GetDefault(opp.categories, <<>>),
     eligibility |-> GetDefault(opp.eligibility, <<>>),
     match_score |-> Final(score, bonus),
     why |-> << <<"M", "a", "t", "c", "h", "e", "d", " ", "o", "n", " ", "k", "e", "y", "w", "o", "r", "d", "s", " ">>, cs, <<";", " ", "b", "a", "s", "e", " ", "s", "c", "o", "r", "e", " ">>, score, <<",", " ", "b", "o", "n", "u", "s", "e", "s", " ">>, bonus >>]

\* the for loop over sample from position k on, acc the items so far
RECURSIVE Loop(_, _, _, _, _)
Loop(r, cs, docs, k, acc) ==
    IF k > Len(docs) THEN Ok(acc)
    ELSE LET opp == docs[k]
         IN IF RegionSkip(r, opp) THEN Loop(r, cs, docs, k + 1, acc)
            ELSE LET s == simple_score(r.description, opp)
                 IN IF s.err THEN Raise
                    ELSE LET b == Bonus(r, cs, opp)
                         IN IF b.err THEN Raise
                            ELSE Loop(r, cs, docs, k + 1,
                                      Append(acc, Item(opp, cs, s.val, b.val)))

\* items.sort(key=match_score, reverse=True): stable, equal keys keep their order
\* (an insertion that puts x before the items of equal score)
InsertUnstable(s, x) ==
    LET n == Cardinality({i \in 1..Len(s) : s[i].match_score > x.match_score})
    IN SubSeq(s, 1, n) \o <<x>> \o SubSeq(s, n + 1, Len(s))

InsertDesc(s, x) ==
    LET n == Cardinality({i \in 1..Len(s) : s[i].match_score >= x.match_score})
    IN SubSeq(s, 1, n) \o <<x>> \o SubSeq(s, n + 1, Len(s))

RECURSIVE SortDesc(_)
SortDesc(l) ==
    IF l = <<>> THEN <<>>
    ELSE InsertDesc(SortDesc(SubSeq(l, 1, Len(l) - 1)), l[Len(l)])

\* l[:n]
Take(l, n) == SubSeq(l, 1, Min(n, Len(l)))

TopResults == 10
TopHighlights == 3

Digits == <<"0", "1", "2", "3", "4", "5", "6", "7", "8", "9">>

\* str(n) for an int n >= 0
RECURSIVE IntStr(_)
IntStr(n) == IF n < 10 THEN <<Digits[n + 1]>> ELSE IntStr(n \div 10) \o <<Digits[(n % 10) + 1]>>

\* str(match_score): max and min hand back the int 0 or 100 at the ends of
\* the range and the float in between
ScoreStr(h) ==
    IF h <= 0 THEN <<"0">>
    ELSE IF h >= 10000 THEN <<"1", "0", "0">>
    ELSE IntStr(h \div 100) \o <<".">> \o
         (IF h % 10 = 0 THEN <<Digits[((h % 100) \div 10) + 1]>>
          ELSE <<Digits[((h % 100) \div 10) + 1], Digits[(h % 10) + 1]>>)

\* str(x) inside the f-string, for a str or None
FieldStr(v) == IF v.kind = "val" THEN v.val ELSE <<"N", "o", "n", "e">>

\* one line of summary_lines
SummaryLine(x) ==
    <<"1", ")", " ">> \o FieldStr(x.title) \o <<" ", "U+2014", " ">> \o FieldStr(x.agency) \o
    <<" ", "(", "S", "c", "o", "r", "e", " ">> \o ScoreStr(x.match_score) \o <<")">>

Notes == <<"S", "c", "o", "r", "e", "s", " ", "a", "r", "e", " ", "h", "e", "u", "r", "i", "s", "t", "i", "c", ".", " ", "A", "d", "d", " ", "m", "o", "r", "e", " ", "d", "a", "t", "a", " ", "t", "o", " ", "i", "m", "p", "r", "o", "v", "e", " ", "m", "a", "t", "c", "h", "e", "s", ".">>

\* datetime.utcnow().isoformat() + "Z"; the clock reading is not modelled
GeneratedAt == <<"u", "t", "c", "n", "o", "w">> \o <<"Z">>

NoReport == [query |-> <<>>, detected_categories |-> <<>>, generated_at |-> <<>>,
             highlights |-> <<>>, notes |-> <<>>]
NoResponse == [status |-> 0, results |-> <<>>, report |-> NoReport]
ErrorResponse == [status |-> 500, results |-> <<>>, report |-> NoReport]

NoOpportunity == Doc(Absent, Absent, Absent, Absent, Absent, Absent, Absent, Absent, Absent)
NoRet == [kind |-> "none", val |-> <<>>]

Init ==
    /\ db \in DbStates
    /\ collection \in (IF db = "up" THEN Collections ELSE {<<>>})
    /\ pc = "idle"
    /\ req = NoRequest
    /\ sample = <<>>
    /\ cats = <<>>
    /\ items = <<>>
    /\ response = NoResponse
    /\ error = "none"
    /\ text = <<>>
    /\ opportunity = NoOpportunity
    /\ ret = NoRet

\* POST /match arrives with a validated body
Receive ==
    /\ pc = "idle"
    /\ \E r \in Requests : req' = r
    /\ pc' = "received"
    /\ UNCHANGED <<db, collection, sample, cats, items, response, error, pureVars>>

\* if db is None: sample = [...] else: sample = get_documents(...)
Load ==
    /\ pc = "received"
    /\ IF db = "none"
       THEN /\ sample' = SAMPLE
            /\ pc' = "loaded"
            /\ UNCHANGED <<response, error>>
       ELSE LET g == get_documents(db, collection)
            IN IF g.err
               THEN /\ pc' = "error"
                    /\ error' = "StoreError"
                    /\ response' = ErrorResponse
                    /\ UNCHANGED sample
               ELSE /\ sample' = g.val
                    /\ pc' = "loaded"
                    /\ UNCHANGED <<response, error>>
    /\ UNCHANGED <<db, collection, req, cats, items, pureVars>>

\* cats = extract_categories(...) and the for loop over sample
ScoreAll ==
    /\ pc = "loaded"
    /\ LET cs == extract_categories(DetectText(req))
           l == Loop(req, cs, sample, 1, <<>>)
       IN /\ cats' = cs
          /\ IF l.err
             THEN /\ pc' = "error"
                  /\ error' = "TypeError"
                  /\ response' = ErrorResponse
                  /\ UNCHANGED items
             ELSE /\ items' = l.val
                  /\ pc' = "scored"
                  /\ UNCHANGED <<response, error>>
    /\ UNCHANGED <<db, collection, req, sample, pureVars>>

\* the sort, the report and the return
Respond ==
    /\ pc = "scored"
    /\ LET sorted == SortDesc(items)
           top3 == Take(sorted, TopHighlights)
       IN /\ items' = sorted
          /\ response' =
                [status |-> 200,
                 results |-> Take(sorted, TopResults),
                 report |-> [query |-> req.description,
                             detected_categories |-> cats,
                             generated_at |-> GeneratedAt,
                             highlights |-> [k \in 1..Len(top3) |-> SummaryLine(top3[k])],
                             notes |-> Notes]]
    /\ pc' = "done"
    /\ UNCHANGED <<db, collection, req, sample, cats, error, pureVars>>

\* the request is over; nothing of it is kept for the next one
Finish ==
    /\ pc \in {"done", "error"}
    /\ pc' = "idle"
    /\ req' = NoRequest
    /\ sample' = <<>>
    /\ cats' = <<>>
    /\ items' = <<>>
    /\ response' = NoResponse
    /\ error' = "none"
    /\ UNCHANGED <<db, collection, pureVars>>

Next == Receive \/ Load \/ ScoreAll \/ Respond \/ Finish

Spec == Init /\ [][Next]_vars

\* ------------------------------------------- extract_categories on its own
Alphabet == {"a", "i", "e", "v", "A", " "}

Texts == UNION {[1..n -> Alphabet] : n \in 0..MaxLen}

IdleHandler ==
    /\ db = "none"
    /\ collection = <<>>
    /\ pc = "idle"
    /\ req = NoRequest
    /\ sample = <<>>
    /\ cats = <<>>
    /\ items = <<>>
    /\ response = NoResponse
    /\ error = "none"

InitExtract ==
    /\ IdleHandler
    /\ text \in Texts
    /\ opportunity = NoOpportunity
    /\ ret = NoRet

ExtractCall ==
    /\ ret.kind = "none"
    /\ ret' = [kind |-> "cats", val |-> extract_categories(text)]
    /\ UNCHANGED <<handlerVars, text, opportunity>>

NextExtract == ExtractCall

SpecExtract == InitExtract /\ [][NextExtract]_vars

\* ------------------------------------------------- simple_score on its own
Vocabulary == <<<<"a">>, <<"b">>, <<"c">>, <<"d">>, <<"e">>, <<"f">>, <<"g">>, <<"h">>, <<"i">>>>

\* the words numbered in S, in increasing order
RECURSIVE WordsOf(_)
WordsOf(S) ==
    IF S = {} THEN <<>>
    ELSE LET m == CHOOSE x \in S : \A y \in S : x <= y
         IN <<Vocabulary[m]>> \o WordsOf(S \ {m})

Separators == {<<" ">>, <<"\t", "\n">>}
Endings == {<<>>, <<" ", " ">>, <<" ", "A">>}

Queries ==
    {join(sep, WordsOf(S)) \o end :
        S \in SUBSET (1..MaxWords), sep \in Separators, end \in Endings}

ScoreOpportunities == {
    Doc(Val(<<"F", "u", "l", "l">>), Val(<<"A", "g", "e", "n", "c", "y", " ", "F">>), Val(<<"a", " ", "b", " ", "c", " ", "d", " ", "e", " ", "f", " ", "g", " ", "h", " ", "i">>), Val(<<<<"x">>>>),
        Absent, Absent, Absent, Absent, Absent),
    Doc(Val(<<"M", "i", "x", "e", "d">>), Val(<<"A", "g", "e", "n", "c", "y", " ", "M">>), Val(<<"A", " ", "b", ".">>), Val(<<<<"c">>, <<"D", " ", "e">>>>),
        Absent, Absent, Absent, Absent, Absent),
    BareDoc,
    Doc(Val(<<"N", "u", "l", "l", " ", "D", "e", "s", "c", "r", "i", "p", "t", "i", "o", "n">>), Val(<<"A", "g", "e", "n", "c", "y", " ", "N">>), None, Val(<<<<"a">>>>),
        Absent, Absent, Absent, Absent, Absent),
    Doc(Val(<<"N", "u", "l", "l", " ", "C", "a", "t", "e", "g", "o", "r", "i", "e", "s">>), Val(<<"A", "g", "e", "n", "c", "y", " ", "C">>), Val(<<"a">>), None,
        Absent, Absent, Absent, Absent, Absent) }

InitScore ==
    /\ IdleHandler
    /\ text \in Queries
    /\ opportunity \in ScoreOpportunities
    /\ ret = NoRet

ScoreCall ==
    /\ ret.kind = "none"
    /\ ret' = [kind |-> "score", val |-> simple_score(text, opportunity)]
    /\ UNCHANGED <<handlerVars, text, opportunity>>

NextScore == ScoreCall

SpecScore == InitScore /\ [][NextScore]_vars

\* ================================================================ properties
Clamp(x) == IF x > 10000 THEN 10000 ELSE IF x < 0 THEN 0 ELSE x

BaseOf(x) == x.why[4]
BonusOf(x) == x.why[6]

\* a field of a stored record read as its empty default when missing or null
FieldOrEmpty(f) == IF f.kind = "val" THEN f.val ELSE <<>>

\* the region filter as section 4.3 words it
Excluded(r, opp) ==
    /\ r.region.kind = "val" /\ r.region.val # <<>>
    /\ FieldOrEmpty(opp.region) # <<>>
    /\ ~Contains(lower(r.region.val), lower(FieldOrEmpty(opp.region)))

\* C1: every returned match_score is clamp(base + bonus, 0, 100), base being
\* simple_score(description, opportunity) of an opportunity that passed the
\* region filter, and so lies between 0 and 100
C1_ScoreClamped ==
    pc = "done" =>
        \A i \in 1..Len(response.results) :
            LET x == response.results[i]
            IN /\ x.match_score = Clamp(BaseOf(x) + 100 * BonusOf(x))
               /\ x.match_score >= 0 /\ x.match_score <= 10000
               /\ \E k \in 1..Len(sample) :
                    /\ ~Excluded(req, sample[k])
                    /\ Get(sample[k].title) = x.title
                    /\ simple_score(req.description, sample[k]) = Ok(BaseOf(x))

\* a returned score whose base + bonus exceeded 100
C1_Witness ==
    /\ pc = "done"
    /\ \E i \in 1..Len(response.results) :
         LET x == response.results[i]
         IN BaseOf(x) + 100 * BonusOf(x) > 10000 /\ x.match_score = 10000

\* the words of the opportunity's description plus categories, lowercased
OpportunityWords(opp) ==
    WordSet(lower(FieldOrEmpty(opp.description) \o <<" ">> \o join(<<" ">>, FieldOrEmpty(opp.categories))))

\* C2: simple_score returns 0 for a query without words and otherwise
\* min(100, overlap / max(5, distinct query words) * 100) to two decimals, for
\* every opportunity; it stays within 0..100 and below 100 for fewer than 5 words
C2_SimpleScore ==
    ret.kind = "score" =>
        LET q == WordSet(lower(text))
            n == Cardinality(q)
            overlap == Cardinality(q \cap OpportunityWords(opportunity))
            d == IF n > 5 THEN n ELSE 5
        IN /\ ~ret.val.err
           /\ n = 0 => ret.val.val = 0
           /\ n > 0 => ret.val.val = Clamp(RoundHalfEven(overlap * 10000, d))
           /\ ret.val.val >= 0 /\ ret.val.val <= 10000
           /\ n < 5 => ret.val.val < 10000

\* C3: extract_categories returns a non-empty duplicate-free sequence in the
\* order of the keyword table, holding a tag exactly when one of its triggers
\* occurs in the lowercased text, and exactly <<general>> when none occurs
C3_ExtractCategories ==
    ret.kind = "cats" =>
        LET r == ret.val
            hit(n) == \E j \in 1..Len(KEYWORD_MAP[n].kws) : Contains(KEYWORD_MAP[n].kws[j], lower(text))
            pos(t) == CHOOSE n \in 1..Len(KEYWORD_MAP) : KEYWORD_MAP[n].k = t
        IN /\ Len(r) >= 1
           /\ \A i, j \in 1..Len(r) : i # j => r[i] # r[j]
           /\ \A n \in 1..Len(KEYWORD_MAP) : InList(KEYWORD_MAP[n].k, r) <=> hit(n)
           /\ (\A n \in 1..Len(KEYWORD_MAP) : ~hit(n)) <=> r = << <<"g", "e", "n", "e", "r", "a", "l">> >>
           /\ InList(<<"g", "e", "n", "e", "r", "a", "l">>, r) => Len(r) = 1
           /\ r # << <<"g", "e", "n", "e", "r", "a", "l">> >> =>
                /\ \A i \in 1..Len(r) : \E n \in 1..Len(KEYWORD_MAP) : KEYWORD_MAP[n].k = r[i]
                /\ \A i, j \in 1..Len(r) : i < j => pos(r[i]) < pos(r[j])

\* two tags returned in table order for a text that names them the other way
\* round, one of them in upper case
C3_Witness ==
    /\ ret.kind = "cats"
    /\ text = <<"e", "v", "A", "i">>
    /\ ret.val = << <<"a", "i">>, <<"t", "r", "a", "n", "s", "p", "o", "r", "t">> >>

\* C4: an opportunity is left out exactly when a region hint is given, the
\* opportunity has a region and the lowercased hint is no substring of the
\* lowercased region
C4_RegionFilter ==
    pc \in {"scored", "done"} =>
        /\ \A k \in 1..Len(sample) :
             Excluded(req, sample[k]) <=>
                ~\E i \in 1..Len(items) :
                    /\ items[i].title = Get(sample[k].title)
                    /\ items[i].region = Get(sample[k].region)
        /\ Len(items) = Cardinality({k \in 1..Len(sample) : ~Excluded(req, sample[k])})

\* hint "us": a "US" record kept, an "EU" record left out, a record without
\* region kept
C4_Witness ==
    /\ pc = "done"
    /\ req.region = Val(<<"u", "s">>)
    /\ \E k \in 1..Len(sample) : sample[k].region = Val(<<"E", "U">>) /\ Excluded(req, sample[k])
    /\ \E i \in 1..Len(items) : items[i].region = Val(<<"U", "S">>)
    /\ \E i \in 1..Len(items) : items[i].region = None

\* the place of item k of l in a stable descending order by match_score
Rank(l, k) ==
    1 + Cardinality({j \in 1..Len(l) :
            \/ l[j].match_score > l[k].match_score
            \/ l[j].match_score = l[k].match_score /\ j < k})

StableTop(l, res) ==
    /\ Len(res) = (IF Len(l) < 10 THEN Len(l) ELSE 10)
    /\ \A k \in 1..Len(l) : Rank(l, k) <= 10 => res[Rank(l, k)] = l[k]

\* C5: the results are the first min(10, n) of the n scored opportunities in
\* descending match_score, equal scores in their input order
C5_StableTopTen ==
    [][(pc = "scored" /\ pc' = "done") => StableTop(items, response'.results)]_vars

\* more than ten scored, ten returned, two different records with the same
\* score among them and a lower score after them
C5_Witness ==
    /\ pc = "done"
    /\ Len(items) > 10
    /\ Len(response.results) = 10
    /\ \E i, j \in 1..10 :
         /\ i < j
         /\ response.results[i].match_score = response.results[j].match_score
         /\ response.results[i].title # response.results[j].title
    /\ response.results[1].match_score > response.results[10].match_score

\* C6: a stored record with a missing or null description, categories,
\* eligibility or region never makes the handler raise
C6_NullFieldsNeverRaise == error # "TypeError"

\* C7: with the store unconfigured or unreachable the request is answered
\* without error from the three examples; with the store available the
\* documents of the collection are used
C7_StoreFallback ==
    pc \in {"loaded", "scored", "done", "error"} =>
        /\ db # "up" => error # "StoreError" /\ sample = SAMPLE
        /\ db = "up" => sample = collection
        /\ (/\ db # "up"
            /\ pc = "done"
            /\ req = [description |-> <<"c", "l", "i", "m", "a", "t", "e", " ", "e", "n", "e", "r", "g", "y", " ", "c", "a", "r", "b", "o", "n", " ", "r", "e", "d", "u", "c", "t", "i", "o", "n">>,
                      sector |-> None, region |-> Val(<<"U", "S">>)]) =>
               /\ \E i \in 1..Len(response.results) :
                    /\ response.results[i].title = Val(<<"C", "l", "i", "m", "a", "t", "e", " ", "I", "n", "n", "o", "v", "a", "t", "i", "o", "n", " ", "F", "u", "n", "d">>)
                    /\ response.results[i].match_score > 0
               /\ \A i \in 1..Len(response.results) :
                    response.results[i].title # Val(<<"D", "i", "g", "i", "t", "a", "l", " ", "H", "e", "a", "l", "t", "h", " ", "S", "e", "e", "d", " ", "G", "r", "a", "n", "t", "s">>)

\* C8: highlights has min(3, results) lines and line k reads
\* "k) Title - Agency (Score S)" for the k-th result
C8_HighlightLines ==
    pc = "done" =>
        LET h == response.report.highlights
            res == response.results
        IN /\ Len(h) = (IF Len(res) < 3 THEN Len(res) ELSE 3)
           /\ \A k \in 1..Len(h) :
                h[k] = IntStr(k) \o <<")", " ">> \o FieldStr(res[k].title) \o <<" ", "U+2014", " ">> \o
                       FieldStr(res[k].agency) \o <<" ", "(", "S", "c", "o", "r", "e", " ">> \o ScoreStr(res[k].match_score) \o <<")">>

\* the bonus as section 4.2 words it
CategoryBonus(cs, opp) ==
    IF \E i \in 1..Len(cs) : InList(cs[i], FieldOrEmpty(opp.categories)) THEN 15 ELSE 0

SectorBonus(r, opp) ==
    IF /\ r.sector.kind = "val" /\ r.sector.val # <<>>
       /\ Contains(lower(r.sector.val),
                   lower(join(<<" ">>, FieldOrEmpty(opp.categories)) \o <<" ">> \o FieldOrEmpty(opp.description)))
    THEN 10 ELSE 0

\* C9: the bonus of every scored opportunity is 15 if some detected tag is in
\* its categories list plus 10 if the sector hint occurs in its categories and
\* description, so one of 0, 10, 15, 25
C9_Bonus ==
    pc \in {"scored", "done"} =>
        \A i \in 1..Len(items) :
            /\ BonusOf(items[i]) \in {0, 10, 15, 25}
            /\ \E k \in 1..Len(sample) :
                 /\ Get(sample[k].title) = items[i].title
                 /\ BonusOf(items[i]) = CategoryBonus(cats, sample[k]) + SectorBonus(req, sample[k])

\* "artificial intelligence for healthcare": the record tagged ai, education
\* gets 15, and so does the record tagged health, ai that two tags match
C9_Witness ==
    /\ pc = "done"
    /\ req.description = <<"a", "r", "t", "i", "f", "i", "c", "i", "a", "l", " ", "i", "n", "t", "e", "l", "l", "i", "g", "e", "n", "c", "e", " ", "f", "o", "r", " ", "h", "e", "a", "l", "t", "h", "c", "a", "r", "e">>
    /\ req.sector = None
    /\ cats = << <<"a", "i">>, <<"h", "e", "a", "l", "t", "h">> >>
    /\ \E i \in 1..Len(items) :
         /\ items[i].categories = Val(<< <<"a", "i">>, <<"e", "d", "u", "c", "a", "t", "i", "o", "n">> >>)
         /\ BonusOf(items[i]) = 15
    /\ \E i \in 1..Len(items) :
         /\ items[i].categories = Val(<< <<"h", "e", "a", "l", "t", "h">>, <<"a", "i">> >>)
         /\ BonusOf(items[i]) = 15

\* C10 as stated: detected_categories is extract_categories of the
\* description alone, whatever the sector hint
C10_FromDescriptionOnly ==
    pc = "done" =>
        /\ response.report.detected_categories = extract_categories(req.description)
        /\ \A i \in 1..Len(response.results) :
             response.results[i].why[2] = extract_categories(req.description)

\* C10 amended: detected_categories, and the tags used for the category
\* bonus, are extract_categories of the description, a space and the sector
\* hint (nothing for no hint); the region hint plays no part
C10_FromDescriptionAndSector ==
    pc = "done" =>
        LET hint == IF req.sector.kind = "val" THEN req.sector.val ELSE <<>>
            tags == extract_categories(req.description \o <<" ">> \o hint)
        IN /\ response.report.detected_categories = tags
           /\ \A i \in 1..Len(response.results) :
                /\ response.results[i].why[2] = tags
                /\ \E k \in 1..Len(sample) :
                     /\ Get(sample[k].title) = response.results[i].title
                     /\ (BonusOf(response.results[i]) >= 15) <=>
                            \E j \in 1..Len(tags) : InList(tags[j], FieldOrEmpty(sample[k].categories))

\* a tag that only the sector hint brings in, and a result that owes its
\* category bonus to it
C10_Witness ==
    /\ pc = "done"
    /\ req.description = <<>>
    /\ req.sector = Val(<<"E", "n", "e", "r", "g", "y">>)
    /\ response.report.detected_categories = << <<"c", "l", "i", "m", "a", "t", "e">> >>
    /\ \E i \in 1..Len(response.results) : BonusOf(response.results[i]) = 25

====
